---- MODULE Spec2Model ----
(***************************************************************************)
(* Model of rm2svg (src/src/main.rs): parse_file decodes a reMarkable      *)
(* ".lines" version 5 byte stream into layers / lines / points, and        *)
(* render_svg projects the decoded layers into an SVG document.            *)
(*                                                                         *)
(* The input file is the environment.  Its bytes are disclosed in the      *)
(* order the reader asks for them: `stream` holds the bytes of the file    *)
(* disclosed so far and `pos` the number of bytes the reader has consumed. *)
(* Numbers keep their width: an i32 is decoded from four little-endian     *)
(* bytes in two's complement; a u32 or the bit pattern of an f32 is kept   *)
(* as two 16-bit halves.                                                   *)
(***************************************************************************)
EXTENDS Integers, Sequences, FiniteSets, TLC

VARIABLES
  stream,       \* bytes of the input file disclosed so far
  pos,          \* bytes consumed through `reader`
  eof,          \* how the file ended under the reader: "none", "eof", "ioerr"
  rest,         \* bytes of the file left unread when parse_file returned Ok
  pc,           \* position in main / parse_file: the field about to be read
  result,       \* outcome of parse_file
  buffer,       \* parse_file: `buffer`, the header bytes read
  log,          \* calls made to `logger`, in order
  reads,        \* names of the fields read after the header, in order
  num_layers,   \* parse_file: `num_layers`
  layers,       \* Layer records collected so far (the returned Vec<Layer>)
  layer,        \* the Layer placeholder whose lines are being collected
  lines,        \* Line records collected for `layer`
  line,         \* the Line placeholder being read / whose points are collected
  points,       \* Point records collected for `line`
  point,        \* the Point being read
  svg,          \* result of render_svg: <<>> before the call, <<document>> after
  probeType,    \* next i32 handed to BrushType::try_from by the conversion probe
  probeColor,   \* next i32 handed to BrushColor::try_from by the conversion probe
  okTypes,      \* probed values BrushType::try_from accepted
  okColors      \* probed values BrushColor::try_from accepted

vars == <<stream, pos, eof, rest, pc, result, buffer, log, reads, num_layers,
          layers, layer, lines, line, points, point, svg,
          probeType, probeColor, okTypes, okColors>>

parseVars == <<stream, pos, eof, rest, pc, result, buffer, log, reads, num_layers,
               layers, layer, lines, line, points, point, svg>>

probeVars == <<probeType, probeColor, okTypes, okColors>>

(***************************************************************************)
(* Bounds of the model.                                                    *)
(***************************************************************************)
\* Largest number of 4-byte fields a file holds after its header.
MaxWords == 27
\* Largest non-negative count a file declares.
MaxCount == 2
\* The conversion probe tries every i32 in -ProbeSpan .. ProbeSpan.
ProbeSpan == 40

(***************************************************************************)
(* Program constants.                                                      *)
(***************************************************************************)
X_MAX == 1404
Y_MAX == 1872

\* const HEADER: "reMarkable .lines file, version=5" and ten spaces, as bytes.
HEADER ==
  <<114, 101, 77, 97, 114, 107, 97, 98, 108, 101, 32,
    46, 108, 105, 110, 101, 115, 32,
    102, 105, 108, 101, 44, 32,
    118, 101, 114, 115, 105, 111, 110, 61, 53,
    32, 32, 32, 32, 32, 32, 32, 32, 32, 32>>

\* enum BrushType, #[repr(i32)]: discriminant -> variant.
BrushType ==
  ( 0 :> "Paintbrush"      @@ 1 :> "PencilTilt"       @@ 2 :> "Pen"
 @@ 3 :> "Marker"          @@ 4 :> "Fineliner"        @@ 5 :> "Highlighter"
 @@ 6 :> "Eraser"          @@ 7 :> "PencilSharp"      @@ 8 :> "RubberArea"
 @@ 9 :> "EraseAll"        @@ 10 :> "SelectionBrush1" @@ 11 :> "SelectionBrush2"
 @@ 12 :> "Paintbrush2"    @@ 13 :> "MechanicalPencil" @@ 14 :> "Pencil2"
 @@ 15 :> "BallpointPen2"  @@ 16 :> "Marker2"         @@ 17 :> "Fineliner2"
 @@ 18 :> "Highlighter2"   @@ 21 :> "Calligraphy" )

\* enum BrushColor, #[repr(i32)]: discriminant -> variant.
BrushColor == ( 0 :> "Black" @@ 1 :> "Grey" @@ 2 :> "White" )

(***************************************************************************)
(* Pure helpers.                                                           *)
(***************************************************************************)
\* A mutant of TryFromPrimitive: the gap 19, 20 of BrushType is not rejected.
TryFromPrimitiveDense(variants, number) ==
  LET top == CHOOSE m \in DOMAIN variants : \A k \in DOMAIN variants : k <= m
  IN  IF number \in 0..top
        THEN [ok |-> TRUE,
              v  |-> IF number \in DOMAIN variants THEN variants[number] ELSE "Unknown"]
        ELSE [ok |-> FALSE, number |-> number]

\* #[derive(TryFromPrimitive)]: Ok(variant) for a declared discriminant,
\* Err(TryFromPrimitiveError { number }) for every other i32.
TryFromPrimitive(variants, number) ==
  IF number \in DOMAIN variants
    THEN [ok |-> TRUE, v |-> variants[number]]
    ELSE [ok |-> FALSE, number |-> number]

\* read_u32::<LittleEndian>: four bytes, least significant first, kept as two
\* 16-bit halves.
U32LE(b) == [hi |-> b[3] + 256 * b[4], lo |-> b[1] + 256 * b[2]]

\* read_i32::<LittleEndian>: the same 32 bits in two's complement.
I32LE(b) ==
  LET u == U32LE(b)
  IN  (IF u.hi >= 32768 THEN u.hi - 65536 ELSE u.hi) * 65536 + u.lo

\* read_f32::<LittleEndian>: f32::from_bits of the 32 bits; an f32 is
\* represented by its bit pattern.
F32LE(b) == [f32 |-> U32LE(b)]

\* A mutant of TakeMore: the take stops one record early.
TakeMoreShort(count, produced) ==
  IF count < 0 THEN TRUE ELSE produced + 1 < count

\* .take(count as usize): whether the Take adaptor yields another record once
\* `produced` records were yielded.  `as usize` sign-extends a negative i32 to
\* at least 2^64 - 2^31 (2^32 - 2^31 on a 32-bit target), which no number of
\* records yielded from a file reaches.
TakeMore(count, produced) ==
  IF count < 0 THEN TRUE ELSE produced < count

\* .collect::<Vec<_>>() over a Take of known length may reserve the whole
\* Vec first; for a sign-extended negative count the byte size exceeds
\* isize::MAX and the reservation panics with "capacity overflow".
CapacityOverflow(count) == count < 0

(***************************************************************************)
(* The input file: what the environment may present at each read.          *)
(***************************************************************************)
\* What the file holds where its header is read: the header itself, the
\* header with another version digit, with a changed last byte, and files
\* that end inside the header.
HeaderInputs ==
  { HEADER,
    [HEADER EXCEPT ![33] = 51],
    [HEADER EXCEPT ![Len(HEADER)] = 0],
    SubSeq(HEADER, 1, 0), SubSeq(HEADER, 1, 10), SubSeq(HEADER, 1, Len(HEADER) - 1) }

\* Bytes of a count field: 0 .. MaxCount, and -1.
CountInputs ==
  { <<n, 0, 0, 0>> : n \in 0..MaxCount } \cup { <<255, 255, 255, 255>> }

\* Bytes of a brush-type field: 21, and 19, 99, 21 * 2^24, -1 outside the enum.
BrushTypeInputs ==
  { <<21, 0, 0, 0>>,
    <<19, 0, 0, 0>>, <<99, 0, 0, 0>>, <<0, 0, 0, 21>>, <<255, 255, 255, 255>> }

\* Bytes of a brush-colour field: 2, and 3, -1 outside the enum.
BrushColorInputs ==
  { <<2, 0, 0, 0>>, <<3, 0, 0, 0>>, <<255, 255, 255, 255>> }

\* Bytes of the fields that are carried through: padding 2^31 + 1 (not an
\* i32), unknown 0.0, brush_size 2.0; x in {10.0, 15.0}, y 20.0, the stroke
\* dynamics 0.0.
OpaqueInputs ==
  [ padding    |-> { <<1, 0, 0, 128>> },
    unknown    |-> { <<0, 0, 0, 0>> },
    brush_size |-> { <<0, 0, 0, 64>> },
    x          |-> { <<0, 0, 32, 65>>, <<0, 0, 112, 65>> },
    y          |-> { <<0, 0, 160, 65>> },
    speed      |-> { <<0, 0, 0, 0>> },
    direction  |-> { <<0, 0, 0, 0>> },
    width      |-> { <<0, 0, 0, 0>> },
    pressure   |-> { <<0, 0, 128, 63>> } ]

\* How a file may end where a 4-byte field is read: at the field, two bytes
\* into it, or with a failing read.
EndInputs ==
  { [part |-> <<>>, e |-> "eof"], [part |-> <<1, 0>>, e |-> "eof"],
    [part |-> <<>>, e |-> "ioerr"] }

\* What a file may hold after the last byte parse_file reads.
TrailingInputs == { <<>>, <<1, 0, 0, 0, 7>> }

(***************************************************************************)
(* parse_file                                                              *)
(***************************************************************************)
\* The fields of a Line header and of a Point, in the order they are read.
LineFields == <<"brush_type", "brush_color", "padding", "unknown", "brush_size", "num_points">>
PointFields == <<"x", "y", "speed", "direction", "width", "pressure">>

FieldPcs ==
  {"num_layers", "num_lines"} \cup { LineFields[i] : i \in 1..Len(LineFields) }
    \cup { PointFields[i] : i \in 1..Len(PointFields) }

\* The field read after `field` within a record; `last` after the final one.
FieldAfter(fields, field, last) ==
  LET i == CHOOSE k \in 1..Len(fields) : fields[k] = field
  IN  IF i < Len(fields) THEN fields[i + 1] ELSE last

\* struct update: record r with field f set to v.
With(r, f, v) == [k \in DOMAIN r \cup {f} |-> IF k = f THEN v ELSE r[k]]

\* logger(level, message)
Logged(level, text, arg) == Append(log, [level |-> level, text |-> text, arg |-> arg])

Running == result.kind = "running"

\* The file has room for one more 4-byte field within the model's bound.
HasRoom == Len(stream) + 4 <= Len(HEADER) + 4 * MaxWords

\* A mutant of Consume: the field is read eight bytes wide.
ConsumeWide(w) ==
  /\ stream' = stream \o w \o <<0, 0, 0, 0>>
  /\ pos' = pos + 8
  /\ reads' = Append(reads, pc)
  /\ UNCHANGED <<eof, rest>>

\* A read_*::<LittleEndian>() that finds its four bytes w.
Consume(w) ==
  /\ stream' = stream \o w
  /\ pos' = pos + 4
  /\ reads' = Append(reads, pc)
  /\ UNCHANGED <<eof, rest>>

\* .unwrap() on an Err, and the other panics: the process aborts.
Panic(error, number) == [kind |-> "panic", error |-> error, number |-> number]

Init ==
  /\ stream = <<>> /\ pos = 0 /\ eof = "none" /\ rest = <<>>
  /\ pc = "header"
  /\ result = [kind |-> "running"]
  /\ buffer = <<>> /\ log = <<>> /\ reads = <<>>
  /\ num_layers = 0
  /\ layers = <<>> /\ layer = <<>> /\ lines = <<>> /\ line = <<>>
  /\ points = <<>> /\ point = <<>>
  /\ svg = <<>>
  /\ probeType = -ProbeSpan /\ probeColor = -ProbeSpan
  /\ okTypes = {} /\ okColors = {}

\* A mutant of HeaderMatches: only the bytes that were read are compared.
HeaderMatchesPrefix(buf) == buf = SubSeq(HEADER, 1, Len(buf))

\* Line 180: &*buffer != HEADER.as_bytes(), negated.
HeaderMatches(buf) == buf = HEADER

\* Lines 172-182: read up to HEADER.len() bytes, log both headers, compare.
ReadHeader ==
  /\ pc = "header" /\ Running
  /\ \E h \in HeaderInputs :
       /\ stream' = h
       /\ pos' = Len(h)
       /\ buffer' = h
       /\ eof' = IF Len(h) < Len(HEADER) THEN "eof" ELSE "none"
       /\ log' = Append(Append(Logged("INFO", "parsing file", <<>>),
                               [level |-> "DEBUG", text |-> "actual header is", arg |-> h]),
                        [level |-> "DEBUG", text |-> "expected header is", arg |-> HEADER])
       /\ IF ~HeaderMatches(h)
            THEN /\ result' = [kind |-> "Err", msg |-> "header does not match .rm v5 file"]
                 /\ pc' = pc
            ELSE /\ result' = result
                 /\ pc' = "num_layers"
  /\ UNCHANGED <<rest, reads, num_layers, layers, layer, lines, line, points, point, svg>>

\* Line 176: read_to_end returns an I/O error and .unwrap() panics.
ReadHeaderFails ==
  /\ pc = "header" /\ Running
  /\ \E h \in HeaderInputs :
       /\ Len(h) < Len(HEADER)
       /\ stream' = h
       /\ pos' = Len(h)
  /\ eof' = "ioerr"
  /\ log' = Logged("INFO", "parsing file", <<>>)
  /\ result' = Panic("io::Error", 0)
  /\ UNCHANGED <<rest, pc, buffer, reads, num_layers, layers, layer, lines, line,
                 points, point, svg>>

\* Any read_i32 / read_u32 / read_f32 that does not find four bytes: the file
\* ends (UnexpectedEof) or the read fails, and .unwrap() panics.
ReadFails ==
  /\ pc \in FieldPcs /\ Running
  /\ \E end \in EndInputs :
       /\ stream' = stream \o end.part
       /\ pos' = pos + Len(end.part)
       /\ eof' = end.e
       /\ result' = Panic(IF end.e = "eof" THEN "UnexpectedEof" ELSE "io::Error", 0)
  /\ UNCHANGED <<rest, pc, buffer, log, reads, num_layers, layers, layer, lines, line,
                 points, point, svg>>

\* Line 184: num_layers
ReadNumLayers ==
  /\ pc = "num_layers" /\ Running /\ HasRoom
  /\ \E w \in CountInputs :
       /\ Consume(w)
       /\ num_layers' = I32LE(w)
  /\ pc' = "layers"
  /\ UNCHANGED <<result, buffer, log, layers, layer, lines, line, points, point, svg>>

\* Lines 186-192, 230: the outer take(num_layers as usize) ... collect():
\* another Layer is pulled, or the Vec<Layer> is complete.
NextLayer ==
  /\ pc = "layers" /\ Running
  /\ pc' = IF TakeMore(num_layers, Len(layers)) THEN "num_lines" ELSE "return"
  /\ UNCHANGED <<stream, pos, eof, rest, result, buffer, log, reads, num_layers,
                 layers, layer, lines, line, points, point, svg>>

\* A mutant of AfterNumLines: the Layer placeholders are all produced before
\* any of them is mapped.
AfterNumLinesEager == "layers"

\* Lines 186-193: the iterators are lazy; once repeat_with has produced a
\* Layer placeholder, the map closure collects its lines before take pulls
\* the next placeholder.
AfterNumLines == "lines"

\* Lines 187-190: the Layer placeholder, num_lines read and no lines.
ReadNumLines ==
  /\ pc = "num_lines" /\ Running /\ HasRoom
  /\ \E w \in CountInputs :
       /\ Consume(w)
       /\ layer' = [num_lines |-> I32LE(w), lines |-> <<>>]
  /\ lines' = <<>>
  /\ pc' = AfterNumLines
  /\ UNCHANGED <<result, buffer, log, num_layers, layers, line, points, point, svg>>

\* Lines 194-228: take(layer.num_lines as usize) ... collect(): another Line
\* is pulled, or the Layer is built from the collected lines.
NextLine ==
  /\ pc = "lines" /\ Running
  /\ IF TakeMore(layer.num_lines, Len(lines))
       THEN /\ pc' = "brush_type"
            /\ UNCHANGED layers
       ELSE /\ layers' = Append(layers, [num_lines |-> layer.num_lines, lines |-> lines])
            /\ pc' = "layers"
  /\ UNCHANGED <<stream, pos, eof, rest, result, buffer, log, reads, num_layers,
                 layer, lines, line, points, point, svg>>

\* Line 199: brush_type, BrushType::try_from(..).unwrap()
ReadBrushType ==
  /\ pc = "brush_type" /\ Running /\ HasRoom
  /\ \E w \in BrushTypeInputs :
       /\ Consume(w)
       /\ LET r == TryFromPrimitive(BrushType, I32LE(w))
          IN  IF r.ok
                THEN /\ line' = [brush_type |-> r.v]
                     /\ pc' = FieldAfter(LineFields, pc, "points")
                     /\ result' = result
                ELSE /\ result' = Panic("TryFromPrimitiveError", r.number)
                     /\ UNCHANGED <<line, pc>>
  /\ UNCHANGED <<buffer, log, num_layers, layers, layer, lines, points, point, svg>>

\* Line 200: brush_color, BrushColor::try_from(..).unwrap()
ReadBrushColor ==
  /\ pc = "brush_color" /\ Running /\ HasRoom
  /\ \E w \in BrushColorInputs :
       /\ Consume(w)
       /\ LET r == TryFromPrimitive(BrushColor, I32LE(w))
          IN  IF r.ok
                THEN /\ line' = With(line, pc, r.v)
                     /\ pc' = FieldAfter(LineFields, pc, "points")
                     /\ result' = result
                ELSE /\ result' = Panic("TryFromPrimitiveError", r.number)
                     /\ UNCHANGED <<line, pc>>
  /\ UNCHANGED <<buffer, log, num_layers, layers, layer, lines, points, point, svg>>

\* Line 201: padding, a u32
ReadPadding ==
  /\ pc = "padding" /\ Running /\ HasRoom
  /\ \E w \in OpaqueInputs[pc] :
       /\ Consume(w)
       /\ line' = With(line, pc, U32LE(w))
  /\ pc' = FieldAfter(LineFields, pc, "points")
  /\ UNCHANGED <<result, buffer, log, num_layers, layers, layer, lines, points, point, svg>>

\* Lines 202-203: unknown and brush_size, each an f32
ReadLineFloat ==
  /\ pc \in {"unknown", "brush_size"} /\ Running /\ HasRoom
  /\ \E w \in OpaqueInputs[pc] :
       /\ Consume(w)
       /\ line' = With(line, pc, F32LE(w))
  /\ pc' = FieldAfter(LineFields, pc, "points")
  /\ UNCHANGED <<result, buffer, log, num_layers, layers, layer, lines, points, point, svg>>

\* Lines 204-205: num_points and the empty points of the Line placeholder
ReadNumPoints ==
  /\ pc = "num_points" /\ Running /\ HasRoom
  /\ \E w \in CountInputs :
       /\ Consume(w)
       /\ line' = With(With(line, pc, I32LE(w)), "points", <<>>)
  /\ points' = <<>>
  /\ pc' = FieldAfter(LineFields, pc, "points")
  /\ UNCHANGED <<result, buffer, log, num_layers, layers, layer, lines, point, svg>>

\* Lines 209-225: take(line.num_points as usize) ... collect(): another Point
\* is pulled, or the Line is rebuilt with the collected points.
NextPoint ==
  /\ pc = "points" /\ Running
  /\ IF TakeMore(line.num_points, Len(points))
       THEN /\ pc' = PointFields[1]
            /\ point' = <<>>
            /\ UNCHANGED lines
       ELSE /\ lines' = Append(lines, With(line, "points", points))
            /\ pc' = "lines"
            /\ UNCHANGED point
  /\ UNCHANGED <<stream, pos, eof, rest, result, buffer, log, reads, num_layers,
                 layers, layer, line, points, svg>>

\* Lines 213-220: the six f32 fields of a Point; the Point is yielded after
\* the last of them.
ReadPointField ==
  /\ pc \in { PointFields[i] : i \in 1..Len(PointFields) } /\ Running /\ HasRoom
  /\ \E w \in OpaqueInputs[pc] :
       /\ Consume(w)
       /\ point' = With(point, pc, F32LE(w))
  /\ pc' = FieldAfter(PointFields, pc, "points")
  /\ points' = IF pc = PointFields[Len(PointFields)] THEN Append(points, point') ELSE points
  /\ UNCHANGED <<result, buffer, log, num_layers, layers, layer, lines, line, svg>>

\* Lines 192-230: a collect() that reserves its Vec for a sign-extended
\* negative count panics before the first record is read.
CollectOverflow ==
  /\ Running
  /\ \/ pc = "layers" /\ layers = <<>> /\ CapacityOverflow(num_layers)
     \/ pc = "lines" /\ lines = <<>> /\ CapacityOverflow(layer.num_lines)
     \/ pc = "points" /\ points = <<>> /\ CapacityOverflow(line.num_points)
  /\ result' = Panic("capacity overflow", 0)
  /\ UNCHANGED <<stream, pos, eof, rest, pc, buffer, log, reads, num_layers,
                 layers, layer, lines, line, points, point, svg>>

\* Lines 232-234: log the layers and return Ok(layers).  Nothing is read:
\* whatever the file holds beyond `pos` stays unread.
Return ==
  /\ pc = "return" /\ Running
  /\ result' = [kind |-> "Ok"]
  /\ log' = Logged("TRACE", "layers", layers)
  /\ \E t \in TrailingInputs : rest' = t
  /\ pc' = "render_svg"
  /\ UNCHANGED <<stream, pos, eof, buffer, reads, num_layers, layers, layer, lines,
                 line, points, point, svg>>

(***************************************************************************)
(* render_svg                                                              *)
(***************************************************************************)
\* svg Data::move_to / Data::line_to: append one absolute command.
move_to(data, parameters) ==
  Append(data, [command |-> "Move", position |-> "Absolute", parameters |-> parameters])

line_to(data, parameters) ==
  Append(data, [command |-> "Line", position |-> "Absolute", parameters |-> parameters])

\* A mutant of PathCommand: every point, the first included, is a line-to.
PathCommandNoMove(acc_data, index, next_point) ==
  line_to(acc_data, <<next_point.x, next_point.y>>)

\* Lines 256-259: the closure folded over points.iter().enumerate().
PathCommand(acc_data, index, next_point) ==
  IF index = 0
    THEN move_to(acc_data, <<next_point.x, next_point.y>>)
    ELSE line_to(acc_data, <<next_point.x, next_point.y>>)

\* Lines 254-259: points.iter().enumerate().fold(SVGData::new(), ..), from
\* 0-based `index` on.
RECURSIVE FoldPoints(_, _, _)
FoldPoints(pts, index, acc_data) ==
  IF index >= Len(pts)
    THEN acc_data
    ELSE FoldPoints(pts, index + 1, PathCommand(acc_data, index, pts[index + 1]))

\* Lines 248-260: the styled SVGPath of one Line.
SVGPath(next_line) ==
  [ fill            |-> "none",
    stroke          |-> "black",
    stroke_width    |-> 3,
    stroke_linejoin |-> "round",
    stroke_linecap  |-> "round",
    d               |-> FoldPoints(next_line.points, 0, <<>>) ]

\* A mutant of GroupAdd: a path is added only for a line that has points.
GroupAddNonEmpty(acc_group, next_line) ==
  IF next_line.points = <<>>
    THEN acc_group
    ELSE [children |-> Append(acc_group.children, SVGPath(next_line))]

\* Lines 246-261: acc_group.add(path of next_line)
GroupAdd(acc_group, next_line) ==
  [children |-> Append(acc_group.children, SVGPath(next_line))]

\* Lines 244-263: lines.iter().fold(SVGGroup::new(), ..), from the i-th line on.
RECURSIVE FoldLines(_, _, _)
FoldLines(ls, i, acc_group) ==
  IF i > Len(ls) THEN acc_group ELSE FoldLines(ls, i + 1, GroupAdd(acc_group, ls[i]))

\* Lines 238-265: layers.iter().fold(SVGDocument::new()..., ..), from the
\* i-th layer on.
RECURSIVE FoldLayers(_, _, _)
FoldLayers(ly, i, acc_svg) ==
  IF i > Len(ly)
    THEN acc_svg
    ELSE FoldLayers(ly, i + 1,
           [acc_svg EXCEPT !.children =
              Append(@, FoldLines(ly[i].lines, 1, [children |-> <<>>]))])

\* fn render_svg(layers) -> Result<SVGDocument, String>: always Ok.
render_svg(ly) ==
  [ kind |-> "Ok",
    document |-> FoldLayers(ly, 1,
      [ width |-> X_MAX, height |-> Y_MAX, viewBox |-> <<0, 0, X_MAX, Y_MAX>>,
        children |-> <<>> ]) ]

\* Lines 146-148 of main: render_svg is called with the layers parse_file
\* returned.
RenderSvg ==
  /\ pc = "render_svg" /\ result.kind = "Ok"
  /\ svg' = <<render_svg(layers)>>
  /\ pc' = "save"
  /\ UNCHANGED <<stream, pos, eof, rest, result, buffer, log, reads, num_layers,
                 layers, layer, lines, line, points, point>>

(***************************************************************************)
(* The program.                                                            *)
(***************************************************************************)
Next ==
  /\ UNCHANGED probeVars
  /\ \/ ReadHeader
     \/ ReadHeaderFails
     \/ ReadFails
     \/ ReadNumLayers
     \/ NextLayer
     \/ ReadNumLines
     \/ NextLine
     \/ ReadBrushType
     \/ ReadBrushColor
     \/ ReadPadding
     \/ ReadLineFloat
     \/ ReadNumPoints
     \/ NextPoint
     \/ ReadPointField
     \/ CollectOverflow
     \/ Return
     \/ RenderSvg

Spec == Init /\ [][Next]_vars

(***************************************************************************)
(* The enum conversions on their own: every i32 of -ProbeSpan .. ProbeSpan *)
(* is handed to BrushType::try_from and to BrushColor::try_from.           *)
(***************************************************************************)
ProbeBrushType ==
  /\ probeType <= ProbeSpan
  /\ okTypes' = IF TryFromPrimitive(BrushType, probeType).ok
                  THEN okTypes \cup {probeType} ELSE okTypes
  /\ probeType' = probeType + 1
  /\ UNCHANGED <<probeColor, okColors>>

ProbeBrushColor ==
  /\ probeColor <= ProbeSpan
  /\ okColors' = IF TryFromPrimitive(BrushColor, probeColor).ok
                   THEN okColors \cup {probeColor} ELSE okColors
  /\ probeColor' = probeColor + 1
  /\ UNCHANGED <<probeType, okTypes>>

ProbeNext ==
  /\ UNCHANGED parseVars
  /\ \/ ProbeBrushType
     \/ ProbeBrushColor

ConvSpec == Init /\ [][ProbeNext]_vars

(***************************************************************************)
(* Properties.                                                             *)
(***************************************************************************)
SetOf(fields) == { fields[i] : i \in 1..Len(fields) }

\* The Document parse_file returned, if it returned one.
Returned == result.kind = "Ok"

\* The header step is over and the header read itself did not fail.
HeaderWasRead == ~(pc = "header" /\ (Running \/ eof = "ioerr"))

\* No more than the first n bytes of the file, as far as it is disclosed.
FirstBytes(n) == SubSeq(stream, 1, IF Len(stream) < n THEN Len(stream) ELSE n)

\* The last field read was an enum field whose value try_from rejected.
RejectedEnum ==
  /\ pc \in {"brush_type", "brush_color"}
  /\ reads # <<>>
  /\ reads[Len(reads)] = pc

\* The four bytes read last.
LastWord == SubSeq(stream, Len(stream) - 3, Len(stream))

LineComplete(l) == Len(l.points) = l.num_points
LayerComplete(y) ==
  /\ Len(y.lines) = y.num_lines
  /\ \A j \in 1..Len(y.lines) : LineComplete(y.lines[j])

\* Number of reads of `field` among reads[from .. Len(reads)].
ReadsOf(field, from) == Cardinality({ i \in from..Len(reads) : reads[i] = field })

\* Index of the last read of `field`; 0 if there is none.
LastRead(field) ==
  LET at == { i \in 1..Len(reads) : reads[i] = field }
  IN  IF at = {} THEN 0 ELSE CHOOSE i \in at : \A k \in at : k <= i

\* The reads a document takes when every record follows its count at once.
RECURSIVE PointReads(_, _)
PointReads(pts, k) ==
  IF k > Len(pts) THEN <<>> ELSE PointFields \o PointReads(pts, k + 1)

RECURSIVE LineReads(_, _)
LineReads(ls, j) ==
  IF j > Len(ls) THEN <<>>
  ELSE LineFields \o PointReads(ls[j].points, 1) \o LineReads(ls, j + 1)

RECURSIVE LayerReads(_, _)
LayerReads(ly, i) ==
  IF i > Len(ly) THEN <<>>
  ELSE <<"num_lines">> \o LineReads(ly[i].lines, 1) \o LayerReads(ly, i + 1)

\* The bytes of a document, field by field in file order.
BytesOf(u) == <<u.lo % 256, u.lo \div 256, u.hi % 256, u.hi \div 256>>
BytesOfCount(n) == BytesOf([hi |-> n \div 65536, lo |-> n % 65536])
BytesOfEnum(variants, v) ==
  BytesOfCount(CHOOSE d \in DOMAIN variants : variants[d] = v)

PointBytes(p) ==
  BytesOf(p.x.f32) \o BytesOf(p.y.f32) \o BytesOf(p.speed.f32)
    \o BytesOf(p.direction.f32) \o BytesOf(p.width.f32) \o BytesOf(p.pressure.f32)

RECURSIVE PointsBytes(_, _)
PointsBytes(pts, k) ==
  IF k > Len(pts) THEN <<>> ELSE PointBytes(pts[k]) \o PointsBytes(pts, k + 1)

RECURSIVE LinesBytes(_, _)
LinesBytes(ls, j) ==
  IF j > Len(ls) THEN <<>>
  ELSE BytesOfEnum(BrushType, ls[j].brush_type) \o BytesOfEnum(BrushColor, ls[j].brush_color)
         \o BytesOf(ls[j].padding) \o BytesOf(ls[j].unknown.f32)
         \o BytesOf(ls[j].brush_size.f32) \o BytesOfCount(ls[j].num_points)
         \o PointsBytes(ls[j].points, 1) \o LinesBytes(ls, j + 1)

RECURSIVE LayersBytes(_, _)
LayersBytes(ly, i) ==
  IF i > Len(ly) THEN <<>>
  ELSE BytesOfCount(ly[i].num_lines) \o LinesBytes(ly[i].lines, 1) \o LayersBytes(ly, i + 1)

\* Sum over lines of (24 + 24 * point count), and over layers of (4 + that).
RECURSIVE LinesSize(_, _)
LinesSize(ls, j) ==
  IF j > Len(ls) THEN 0 ELSE 24 + 24 * ls[j].num_points + LinesSize(ls, j + 1)

RECURSIVE LayersSize(_, _)
LayersSize(ly, i) ==
  IF i > Len(ly) THEN 0 ELSE 4 + LinesSize(ly[i].lines, 1) + LayersSize(ly, i + 1)

\* The groups of the rendered document.
Groups == svg[1].document.children

\* C1: a negative layer count, line count or point count is treated as zero
\* records: no record is read under it and the decode does not fail over it.
C1_NegativeCountIsZeroRecords ==
  /\ pc = "num_lines" => num_layers >= 0
  /\ pc \in SetOf(LineFields) => layer.num_lines >= 0
  /\ pc \in SetOf(PointFields) => line.num_points >= 0
  /\ ~(result.kind = "panic" /\ result.error = "capacity overflow")

\* C2: a stream that ends, or whose read fails, at a field of any nesting
\* level fails the decode with a returned TruncatedInput failure naming the
\* field being read; the decode does not abort in any other way.
C2_TruncationIsTruncatedInput ==
  (pc \in FieldPcs /\ eof # "none") =>
    /\ result.kind = "Err"
    /\ result.error = "TruncatedInput"
    /\ result.field = pc

\* C3: a brush type outside 0..18, 21 or a brush colour outside 0, 1, 2 fails
\* the decode with a returned UnknownEnumValue failure carrying the field
\* name and the raw value.
C3_UnknownEnumIsReturned ==
  RejectedEnum =>
    /\ result.kind = "Err"
    /\ result.error = "UnknownEnumValue"
    /\ result.field = pc
    /\ result.value = I32LE(LastWord)

\* C4 as claimed: a decode that returns (Ok or Err) on a file whose first 44
\* bytes are not exactly the magic header returns the header mismatch and
\* has read no field.
C4_Original ==
  (result.kind \in {"Ok", "Err"} /\ FirstBytes(44) # HEADER) =>
    /\ result = [kind |-> "Err", msg |-> "header does not match .rm v5 file"]
    /\ reads = <<>>

\* C4 as amended: once the header was read, a file whose first 43 bytes
\* (HEADER.len()) are not exactly the magic header, files shorter than that
\* included, has made parse_file return the header-mismatch error, after
\* handing the actual and the expected header to the logger; no Document
\* exists, nothing is rendered, and no byte beyond the header bytes and no
\* count or record field was read.  A file that starts with the magic header
\* is not rejected for its header.
C4_HeaderMismatch ==
  HeaderWasRead =>
    IF FirstBytes(Len(HEADER)) # HEADER
      THEN /\ result = [kind |-> "Err", msg |-> "header does not match .rm v5 file"]
           /\ Len(log) = 3
           /\ log[2].text = "actual header is" /\ log[2].arg = stream
           /\ log[3].text = "expected header is" /\ log[3].arg = HEADER
           /\ reads = <<>>
           /\ pos = Len(stream) /\ pos <= Len(HEADER)
           /\ layers = <<>> /\ svg = <<>>
      ELSE result.kind # "Err"

C4_Witness ==
  /\ result.kind = "Err"
  /\ Len(stream) = Len(HEADER)
  /\ stream[33] # HEADER[33]

\* C5: reads are nested in file order.  When the cursor stands at a layer's
\* line count, every layer whose count was read before is complete, with all
\* its lines and all their points; when it stands at a line's first header
\* field, every line of the layer read before is complete with all its
\* points; and a returned Document was read count by count, each count
\* followed at once by the records it governs.
C5_ReadsNested ==
  /\ pc = "num_lines" =>
       /\ ReadsOf("num_lines", 1) \in {Len(layers), Len(layers) + 1}
       /\ (Running => ReadsOf("num_lines", 1) = Len(layers))
       /\ \A i \in 1..Len(layers) : LayerComplete(layers[i])
  /\ pc = "brush_type" =>
       /\ ReadsOf("brush_type", LastRead("num_lines") + 1) \in {Len(lines), Len(lines) + 1}
       /\ (Running => ReadsOf("brush_type", LastRead("num_lines") + 1) = Len(lines))
       /\ \A j \in 1..Len(lines) : LineComplete(lines[j])
  /\ pc = "x" =>
       ReadsOf("x", LastRead("num_points") + 1) \in {Len(points), Len(points) + 1}
  /\ Returned => reads = <<"num_layers">> \o LayerReads(layers, 1)

C5_Witness ==
  /\ pc = "num_lines" /\ Running
  /\ Len(layers) = 1
  /\ Len(layers[1].lines) = 2
  /\ Len(layers[1].lines[1].points) = 1
  /\ Len(layers[1].lines[2].points) = 0

\* C6: a returned Document has as many layers as the declared layer count,
\* every layer as many lines as its num_lines and every line as many points
\* as its num_points, and its records are those of the stream in stream
\* order: written out field by field they are the bytes that follow the
\* layer count.
C6_CountsMatch ==
  Returned =>
    /\ Len(layers) = num_layers
    /\ \A i \in 1..Len(layers) : LayerComplete(layers[i])
    /\ LayersBytes(layers, 1) = SubSeq(stream, Len(HEADER) + 5, pos)

C6_Witness ==
  /\ Returned
  /\ Len(layers) = 2
  /\ Len(layers[1].lines) = 1
  /\ Len(layers[1].lines[1].points) = 1
  /\ Len(layers[2].lines) = 0

\* C7: the path of every line has one command per point: a move-to at the
\* first point's (x, y), then a line-to at each following point's (x, y), in
\* point order; a line without points has a path without commands.
C7_PathCommands ==
  svg # <<>> =>
    \A i \in 1..Len(layers) : \A j \in 1..Len(layers[i].lines) :
      LET pts == layers[i].lines[j].points
          d   == Groups[i].children[j].d
      IN  /\ Len(d) = Len(pts)
          /\ \A k \in 1..Len(pts) :
               /\ d[k].command = IF k = 1 THEN "Move" ELSE "Line"
               /\ d[k].parameters = <<pts[k].x, pts[k].y>>

C7_Witness ==
  /\ svg # <<>>
  /\ \E i \in 1..Len(layers) : \E j \in 1..Len(layers[i].lines) :
       LET pts == layers[i].lines[j].points
       IN  /\ Len(pts) = 2
           /\ pts[1].x # pts[2].x
           /\ Len(Groups[i].children[j].d) = 2

\* C8: render_svg returns Ok with one group per layer in layer order and, in
\* each group, one path per line of that layer in line order (the j-th path
\* of the i-th group carries the points of the j-th line of the i-th layer),
\* also for documents without layers and layers without lines.
C8_GroupsAndPaths ==
  /\ pc = "save" => svg # <<>>
  /\ svg # <<>> =>
       /\ svg[1].kind = "Ok"
       /\ Len(Groups) = Len(layers)
       /\ \A i \in 1..Len(layers) :
            /\ Len(Groups[i].children) = Len(layers[i].lines)
            /\ \A j \in 1..Len(layers[i].lines) :
                 /\ Len(Groups[i].children[j].d) = Len(layers[i].lines[j].points)
                 /\ \A k \in 1..Len(layers[i].lines[j].points) :
                      Groups[i].children[j].d[k].parameters[1]
                        = layers[i].lines[j].points[k].x

C8_Witness ==
  /\ svg # <<>>
  /\ Len(layers) = 2
  /\ Len(layers[1].lines) = 2
  /\ layers[1].lines[1].points = <<>>
  /\ Len(layers[1].lines[2].points) = 1
  /\ layers[2].lines = <<>>

\* C9 as claimed: the i32 values BrushType::try_from accepts are 22.
C9_Original == probeType > ProbeSpan => Cardinality(okTypes) = 22

\* C9 as amended: the i32 values BrushType::try_from accepts are the 20
\* values 0..18 and 21.
C9_TwentyBrushTypes ==
  probeType > ProbeSpan =>
    /\ Cardinality(okTypes) = 20
    /\ okTypes = (0..18) \cup {21}

C9_Witness == probeType > ProbeSpan /\ 21 \in okTypes

\* C10 as claimed: a successful decode has consumed exactly
\* 44 + 4 + sum over layers (4 + sum over lines (24 + 24 * point count)) bytes.
C10_Original == Returned => pos = 44 + 4 + LayersSize(layers, 1)

\* C10 as amended: a successful decode has consumed exactly
\* 43 + 4 + sum over layers (4 + sum over lines (24 + 24 * point count))
\* bytes from the start of the stream, 43 being HEADER.len(), and has looked
\* at no byte beyond them; whatever follows them in the file, the decode
\* returns the Document those bytes encode and does not fail.
C10_BytesConsumed ==
  Returned =>
    /\ pos = Len(HEADER) + 4 + LayersSize(layers, 1)
    /\ Len(stream) = pos
    /\ LayersBytes(layers, 1) = SubSeq(stream, Len(HEADER) + 5, pos)
    /\ eof = "none"

C10_Witness ==
  /\ Returned
  /\ rest # <<>>
  /\ Len(layers) = 1
  /\ Len(layers[1].lines) = 1
  /\ Len(layers[1].lines[1].points) = 2

====
